---- MODULE Spec2Model ----
(***************************************************************************)
(* A model of the baseball lineup service: the SQLite-backed Database      *)
(* (People, Batting, Lineups, LineupAssignments) with its lineup and read  *)
(* operations, the GraphQL resolvers, the lineup mutation as concurrent    *)
(* clients run it, and the per-request DataSource with its two DataLoader  *)
(* instances.                                                              *)
(*                                                                         *)
(* Text values are sequences of one-character strings, so that split and   *)
(* LIKE are computed character by character.  SQL NULL / JS null is NULL.  *)
(***************************************************************************)
EXTENDS Integers, Sequences, FiniteSets, TLC

VARIABLES
    People,             \* table People, a sequence of rows in rowid order
    Batting,            \* table Batting, a sequence of rows in rowid order
    Lineups,            \* table Lineups, the set of its lineupId values
    seq,                \* the AUTOINCREMENT counter of Lineups
    LineupAssignments,  \* table LineupAssignments, a set of rows
    call,               \* the Database operation in progress or last completed
    tick,               \* "sync" while resolver code runs, "idle" between waves
    batches,            \* per loader: the batches not yet dispatched
    cacheMap,           \* per loader: the keys that have a cached promise
    inflight,           \* per loader: the dispatched batches awaiting their rows
    fetches,            \* per loader: the calls of the batch function so far
    wave,               \* the number of the current resolution wave
    requested,          \* per loader: the keys loaded uncached in this wave
    delivered,          \* the values handed to the callers of load
    nloads,             \* the number of load calls so far
    read,               \* the read operation or field resolver last completed
    mutations,          \* per client: its lineup mutation in progress
    returned,           \* the identifiers createLineup has returned, in order
    served              \* the keys fetched for the requests served before

tables == <<People, Batting>>
dbvars == <<Lineups, seq, LineupAssignments, call>>
loadervars == <<tick, batches, cacheMap, inflight, fetches, wave, requested,
                delivered, nloads>>
readvars == <<read>>
mutationvars == <<mutations, returned>>
servervars == <<served>>
vars == <<tables, dbvars, loadervars, readvars, mutationvars, servervars>>

(***************************************************************************)
(* Bounds.                                                                 *)
(***************************************************************************)
\* lineup identifiers 1..MaxLineupId are created and used as arguments
MaxLineupId == 1
\* the number of load calls issued within one operation
MaxLoads == 4
\* the length of the identifier lists passed to getProfiles and getStats
MaxIdents == 2
\* the number of lineups created by the lineup mutations
MaxCreated == 2

NULL == <<"NULL">>

(***************************************************************************)
(* database.ts: KNOWN_POSITIONS, in insertion (iteration) order.           *)
(***************************************************************************)
KNOWN_POSITIONS ==
    << "pitcher", "catcher", "firstBase", "secondBase", "thirdBase",
       "shortstop", "leftField", "centerField", "rightField" >>

KnownPositionSet == { KNOWN_POSITIONS[i] : i \in DOMAIN KNOWN_POSITIONS }

(***************************************************************************)
(* Text helpers.                                                           *)
(***************************************************************************)
UpperCase == << "A", "B", "C", "D", "E", "F", "G", "H", "I", "J", "K", "L", "M",
                "N", "O", "P", "Q", "R", "S", "T", "U", "V", "W", "X", "Y", "Z" >>
LowerCase == << "a", "b", "c", "d", "e", "f", "g", "h", "i", "j", "k", "l", "m",
                "n", "o", "p", "q", "r", "s", "t", "u", "v", "w", "x", "y", "z" >>

\* SQLite's LIKE folds the ASCII letters before comparing
Fold(c) ==
    IF \E i \in DOMAIN UpperCase : UpperCase[i] = c
    THEN LowerCase[CHOOSE i \in DOMAIN UpperCase : UpperCase[i] = c]
    ELSE c

\* text LIKE pat : '%' matches any run of characters, '_' any one character,
\* every other character matches itself up to ASCII case
RECURSIVE Like(_, _)
Like(text, pat) ==
    IF pat = <<>> THEN text = <<>>
    ELSE IF Head(pat) = "%"
         THEN Like(text, Tail(pat)) \/ (text # <<>> /\ Like(Tail(text), pat))
         ELSE /\ text # <<>>
              /\ (Head(pat) = "_" \/ Fold(Head(pat)) = Fold(Head(text)))
              /\ Like(Tail(text), Tail(pat))

\* query.split(" ")
RECURSIVE Split(_)
Split(s) ==
    IF s = <<>> THEN << <<>> >>
    ELSE LET rest == Split(Tail(s))
         IN  IF Head(s) = " "
             THEN << <<>> >> \o rest
             ELSE << <<Head(s)>> \o Head(rest) >> \o Tail(rest)

(***************************************************************************)
(* Input domains.                                                          *)
(***************************************************************************)
\* the positions that occur as keys of an assignments map
InputPositions == { "pitcher", "catcher" }

\* the query strings passed as position arguments
Queries ==
    { <<"1">>, <<"B">>, <<"B", "i", "l", "l", " ", "B">>, <<"b", "o">> }

CAN == <<"C", "A", "N">>
USA == <<"U", "S", "A">>

Andy(id) == [playerID |-> id, nameFirst |-> <<"A", "n", "d", "y">>,
             nameLast |-> <<"A", "n", "d", "e", "r", "s", "o", "n">>,
             birthYear |-> 2000, birthCountry |-> CAN]
Bob  == [playerID |-> <<"2">>, nameFirst |-> <<"B", "o", "b">>,
         nameLast |-> <<"B", "a", "l", "l">>,
         birthYear |-> 2001, birthCountry |-> CAN]
Bill == [playerID |-> <<"3">>, nameFirst |-> <<"B", "i", "l", "l">>,
         nameLast |-> <<"B", "a", "k", "e", "r">>,
         birthYear |-> 2002, birthCountry |-> USA]

\* a row of People with given names, which the schema lets be '' or NULL
Named(id, first, last) ==
    [playerID |-> id, nameFirst |-> first, nameLast |-> last,
     birthYear |-> 1900, birthCountry |-> USA]

BattingRow(id, ab, b2, b3, hr, h, so) ==
    [playerID |-> id, AB |-> ab, _2B |-> b2, _3B |-> b3, HR |-> hr, H |-> h,
     SO |-> so]

\* the Batting rows of players "1" and "2" of the test fixture
BattingFixture ==
    << BattingRow(<<"1">>, 10, 20, 2, 2, 3, 4),
       BattingRow(<<"1">>, 90, 21, 3, 8, 7, 6),
       BattingRow(<<"2">>, 50, 22, 3, 6, 7, 8) >>

\* the contents of People, in storage (rowid) order
PeopleTables ==
    { << Andy(<<"1">>), Bob, Bill >>,
      << Bob, Andy(<<"b", "o">>) >>,
      << Andy(<<"b", "o">>), Bob >>,
      << >> }

LineupIds == 1 .. MaxLineupId

\* the player identifiers asked for: "constructor" is stored for nobody
Idents ==
    { <<"1">>, <<"2">>, <<"b", "o">>,
      <<"c", "o", "n", "s", "t", "r", "u", "c", "t", "o", "r">> }

\* the name prefixes passed to getPlayers
Prefixes ==
    { <<>>, <<"B">>, <<"b">>, <<"B", "o">>, <<"A">>, <<"_", "o">>, <<"Z">> }

\* the contents of People for the read operations: the tables above and one
\* in which two players have the same first and last name
ReadPeopleTables ==
    PeopleTables \cup { << Andy(<<"b", "o">>), Bob, Andy(<<"1">>) >> }

IdentLists == UNION { [1 .. n -> Idents] : n \in 0 .. MaxIdents }

EmptyAssignments == [p \in {} |-> <<>>]

AssignmentMaps == UNION { [K -> Queries] : K \in SUBSET InputPositions }

(***************************************************************************)
(* database.ts: Database.updateLineup, the statement parameters.           *)
(***************************************************************************)
\* variant: the patterns without the trailing wildcard (an exact name match)
NamePatternsExact(query) ==
    LET parts == Split(query)
    IN  IF Len(parts) = 1
        THEN [firstName |-> query, lastName |-> <<"%">>]
        ELSE IF Len(parts) = 2
             THEN [firstName |-> parts[1], lastName |-> parts[2]]
             ELSE [firstName |-> <<>>, lastName |-> <<>>]

\* the firstName / lastName patterns built from one query string
NamePatterns(query) ==
    LET parts == Split(query)
    IN  IF Len(parts) = 1
        THEN [firstName |-> query \o <<"%">>, lastName |-> <<"%">>]
        ELSE IF Len(parts) = 2
             THEN [firstName |-> parts[1] \o <<"%">>,
                   lastName |-> parts[2] \o <<"%">>]
             ELSE [firstName |-> <<>>, lastName |-> <<>>]

\* the rows pushed to data: one per known position present in assignments
DataRow(lineupId, position, query) ==
    [lineupId |-> lineupId, position |-> position, playerId |-> query,
     firstName |-> NamePatterns(query).firstName,
     lastName |-> NamePatterns(query).lastName]

\* variant: a row for every key of the assignments map
DataRowsEveryKey(lineupId, assignments) ==
    { DataRow(lineupId, p, assignments[p]) : p \in DOMAIN assignments }

DataRows(lineupId, assignments) ==
    { DataRow(lineupId, p, assignments[p]) :
      p \in KnownPositionSet \cap DOMAIN assignments }

\* WHERE playerId=? OR (namefirst LIKE ? AND namelast LIKE ?)
RowMatches(person, row) ==
    \/ person.playerID = row.playerId
    \/ /\ person.nameFirst # NULL
       /\ person.nameLast # NULL
       /\ Like(person.nameFirst, row.firstName)
       /\ Like(person.nameLast, row.lastName)

\* SELECT playerId FROM People WHERE ... LIMIT 1 : there is no index on the
\* names, so the table is scanned in rowid order and the first matching row
\* is the result; the scalar subquery is NULL when no row matches
SubqueryPlayer(people, row) ==
    LET hits == { i \in DOMAIN people : RowMatches(people[i], row) }
    IN  IF hits = {} THEN NULL
        ELSE people[CHOOSE i \in hits : \A j \in hits : i <= j].playerID

\* variant: a schema with UNIQUE(lineupId, playerId) alone
ConflictsPlayerOnly(table, new) ==
    { r \in table :
        /\ r.lineupId = new.lineupId
        /\ new.playerId # NULL
        /\ r.playerId = new.playerId }

\* variant: a schema with UNIQUE(lineupId, position) alone
ConflictsPositionOnly(table, new) ==
    { r \in table : r.lineupId = new.lineupId /\ r.position = new.position }

\* the rows that a new row conflicts with under UNIQUE(lineupId, position)
\* and UNIQUE(lineupId, playerId); NULLs are distinct in a UNIQUE index
Conflicts(table, new) ==
    { r \in table :
        /\ r.lineupId = new.lineupId
        /\ \/ r.position = new.position
           \/ (new.playerId # NULL /\ r.playerId = new.playerId) }

\* variant: the statement replaces the whole lineup
InsertOrReplaceLineup(table, new) ==
    { r \in table : r.lineupId # new.lineupId } \cup {new}

\* INSERT OR REPLACE INTO LineupAssignments VALUES(...)
InsertOrReplace(table, new) == (table \ Conflicts(table, new)) \cup {new}

\* variant: a statement that writes nothing when the subquery is NULL
RunWriteSkipNull(people, table, row) ==
    IF SubqueryPlayer(people, row) = NULL THEN table
    ELSE (table \ { r \in table :
                      /\ r.lineupId = row.lineupId
                      /\ \/ r.position = row.position
                         \/ r.playerId = SubqueryPlayer(people, row) })
         \cup { [lineupId |-> row.lineupId, position |-> row.position,
                 playerId |-> SubqueryPlayer(people, row)] }

\* variant: an assignment that is already stored is toggled off
RunWriteToggle(people, table, row) ==
    LET new == [lineupId |-> row.lineupId, position |-> row.position,
                playerId |-> SubqueryPlayer(people, row)]
    IN  IF new \in table THEN table \ {new}
        ELSE (table \ { r \in table :
                          /\ r.lineupId = new.lineupId
                          /\ \/ r.position = new.position
                             \/ (new.playerId # NULL /\ r.playerId = new.playerId) })
             \cup {new}

\* one db.run of updateLineup
RunWrite(people, table, row) ==
    InsertOrReplace(table,
        [lineupId |-> row.lineupId, position |-> row.position,
         playerId |-> SubqueryPlayer(people, row)])

(***************************************************************************)
(* database.ts: Database.getLineup.                                        *)
(***************************************************************************)
\* variant: the assignments are read without the join with Lineups
getLineupNoJoin(lineups, table, lineupId) ==
    LET assignments == { r \in table : r.lineupId = lineupId }
    IN  [lineupId |-> lineupId,
         slots |-> [p \in KnownPositionSet |->
                      IF \E r \in assignments :
                            r.position = p /\ r.playerId # NULL
                      THEN (CHOOSE r \in assignments : r.position = p).playerId
                      ELSE NULL]]

\* the shape built from the joined rows: null-filled, a stub per stored player
getLineup(lineups, table, lineupId) ==
    LET assignments == { r \in table :
                           r.lineupId = lineupId /\ lineupId \in lineups }
    IN  [lineupId |-> lineupId,
         slots |-> [p \in KnownPositionSet |->
                      IF \E r \in assignments :
                            r.position = p /\ r.playerId # NULL
                      THEN (CHOOSE r \in assignments : r.position = p).playerId
                      ELSE NULL]]

(***************************************************************************)
(* The operations.  call is the operation in progress, or the one that has *)
(* just returned its result (phase "done"), or none (phase "idle").        *)
(***************************************************************************)
NoCall ==
    [op |-> "none", phase |-> "idle", lineupId |-> 0,
     assignments |-> EmptyAssignments, pending |-> {},
     pre |-> {}, preLineups |-> {}, result |-> getLineup({}, {}, 0)]

(***************************************************************************)
(* database.ts: Database.getPlayers.                                       *)
(***************************************************************************)
\* the characters of the names and prefixes, in code point order
Ascii == << " ", "%", "0", "1", "2", "3", "4", "5", "6", "7", "8", "9" >>
         \o UpperCase \o << "_" >> \o LowerCase

CodePoint(c) == CHOOSE i \in DOMAIN Ascii : Ascii[i] = c

\* a < b under the BINARY collation of a TEXT column (memcmp, then length)
RECURSIVE TextLess(_, _)
TextLess(a, b) ==
    IF b = <<>> THEN FALSE
    ELSE IF a = <<>> THEN TRUE
    ELSE IF Head(a) = Head(b) THEN TextLess(Tail(a), Tail(b))
    ELSE CodePoint(Head(a)) < CodePoint(Head(b))

\* row a sorts before row b under ORDER BY nameFirst,namelast
NameLess(a, b) ==
    \/ TextLess(a.nameFirst, b.nameFirst)
    \/ a.nameFirst = b.nameFirst /\ TextLess(a.nameLast, b.nameLast)

\* variant: the patterns without the trailing wildcard
PlayerPatternsExact(firstName, lastName) ==
    [firstName |-> firstName, lastName |-> lastName]

\* the parameters of the statement: `${firstName}%`, `${lastName}%`
PlayerPatterns(firstName, lastName) ==
    [firstName |-> firstName \o <<"%">>, lastName |-> lastName \o <<"%">>]

\* variant: the statement without ORDER BY, the rows come in rowid order
getPlayersUnordered(people, firstName, lastName) ==
    LET pat == PlayerPatterns(firstName, lastName)
        keep(row) == /\ Like(row.nameFirst, pat.firstName)
                     /\ Like(row.nameLast, pat.lastName)
        rows == SelectSeq(people, keep)
    IN  { [k \in DOMAIN rows |-> rows[k].playerID] }

\* the results the statement can produce: the rows matching both patterns,
\* sorted by the two names; the order among rows equal in both names is not
\* fixed by ORDER BY.  Each row is mapped to its playerID
getPlayers(people, firstName, lastName) ==
    LET pat == PlayerPatterns(firstName, lastName)
        hits == { i \in DOMAIN people :
                    /\ Like(people[i].nameFirst, pat.firstName)
                    /\ Like(people[i].nameLast, pat.lastName) }
        orders == { o \in [1 .. Cardinality(hits) -> hits] :
                      /\ \A j, k \in DOMAIN o : o[j] = o[k] => j = k
                      /\ \A j, k \in DOMAIN o :
                            j < k => ~NameLess(people[o[k]], people[o[j]]) }
    IN  { [k \in DOMAIN o |-> people[o[k]].playerID] : o \in orders }

(***************************************************************************)
(* database.ts: Database.getProfiles and Database.getStats.  Absent stands *)
(* for the null an unmatched identifier is answered with.                  *)
(***************************************************************************)
Absent == [null |-> TRUE]

IsAbsent(value) == "null" \in DOMAIN value

\* mapping is created as {} : an object literal, whose prototype is
\* Object.prototype.  mapping[i] finds the properties it inherits (these
\* among others) when no row has stored a property of that name
ObjectPrototypeKeys ==
    { <<"c", "o", "n", "s", "t", "r", "u", "c", "t", "o", "r">>,
      <<"t", "o", "S", "t", "r", "i", "n", "g">>,
      <<"v", "a", "l", "u", "e", "O", "f">> }

\* the value of such an inherited property: a function, never undefined
Inherited(key) == [inherited |-> key]

\* idents.map((i) => mapping[i] !== undefined ? mapping[i] : null), where
\* own tells that a row has stored mapping[i] and value is what it stored
Lookup(own, i, value) ==
    IF own THEN value
    ELSE IF i \in ObjectPrototypeKeys THEN Inherited(i) ELSE Absent

Elements(sequence) == { sequence[k] : k \in DOMAIN sequence }

getProfiles(people, idents) ==
    LET hits(i) == { k \in DOMAIN people : people[k].playerID = i }
        row(i) == people[CHOOSE k \in hits(i) : \A j \in hits(i) : j <= k]
        mapping(i) ==
            [name |-> row(i).nameFirst \o <<" ">> \o row(i).nameLast,
             country |-> row(i).birthCountry,
             year |-> row(i).birthYear]
    IN  [k \in DOMAIN idents |->
            Lookup(hits(idents[k]) # {}, idents[k], mapping(idents[k]))]

\* variant: the column of the first row of the group, not its sum
SumFirst(rows, col) == Head(rows)[col]

\* SUM(col) over the rows of one group
RECURSIVE Sum(_, _)
Sum(rows, col) ==
    IF rows = <<>> THEN 0 ELSE Head(rows)[col] + Sum(Tail(rows), col)

\* a quotient of two sums is kept as the pair <<numerator, denominator>>
getStats(batting, idents) ==
    LET group(i) == SelectSeq(batting, LAMBDA row : row.playerID = i)
        mapping(i) ==
            LET hits == Sum(group(i), "H")
                atBats == Sum(group(i), "AB")
                doubles == Sum(group(i), "_2B")
                triples == Sum(group(i), "_3B")
                homeRuns == Sum(group(i), "HR")
                strikeouts == Sum(group(i), "SO")
                singles == hits - doubles - triples - homeRuns
            IN  [atBats |-> atBats, hits |-> hits, homeRuns |-> homeRuns,
                 strikeouts |-> strikeouts,
                 battingAverage |-> <<hits, atBats>>,
                 slugging |-> <<singles + (2 * doubles) + (3 * triples)
                                  + (4 * homeRuns), atBats>>]
    IN  [k \in DOMAIN idents |->
            Lookup(group(idents[k]) # <<>>, idents[k], mapping(idents[k]))]

(***************************************************************************)
(* datasource.ts: DataSource, with its two DataLoader instances.  The      *)
(* loader is the dataloader package: load(key) returns the cached promise  *)
(* of the key if there is one, and otherwise adds the key to the current   *)
(* batch and caches its promise; a batch is dispatched once the running    *)
(* resolver code has returned to the event loop, before any I/O callback.  *)
(***************************************************************************)
Loaders == { "profiles", "stats" }

\* the identifiers asked for by the resolvers of one operation
LoaderKeys == { <<"1">>, <<"b", "o">> }

\* variant: a loader constructed with caching switched off
OptionsNoCache(loader) == [batch |-> TRUE, cache |-> FALSE]

\* variant: a loader constructed with batching switched off
OptionsNoBatch(loader) == [batch |-> FALSE, cache |-> TRUE]

\* new DataLoader(batchFn): no options given, so both default to true
LoaderOptions(loader) == [batch |-> TRUE, cache |-> TRUE]

\* variant: the batch function returns the values in the reverse order
BatchFunctionReversed(loader, idents) ==
    LET values == IF loader = "profiles" THEN getProfiles(People, idents)
                  ELSE getStats(Batting, idents)
    IN  [k \in DOMAIN values |-> values[Len(values) + 1 - k]]

\* batchProfiles calls db.getProfiles, batchStats calls db.getStats
BatchFunction(loader, idents) ==
    IF loader = "profiles" THEN getProfiles(People, idents)
    ELSE getStats(Batting, idents)

AllDispatched == \A l \in Loaders : batches[l] = <<>>

\* DataSource.getProfile / DataSource.getStats: loader.load(ident)
Load(loader, key) ==
    LET options == LoaderOptions(loader)
        bs == batches[loader]
        reuse == bs # <<>> /\ (options.batch \/ bs[Len(bs)] = <<>>)
        current == IF reuse THEN bs ELSE Append(bs, <<>>)
        hit == options.cache /\ key \in cacheMap[loader]
    IN  /\ tick = "sync"
        /\ nloads < MaxLoads
        /\ nloads' = nloads + 1
        /\ batches' = [batches EXCEPT ![loader] =
                          IF hit THEN current
                          ELSE [current EXCEPT ![Len(current)] = Append(@, key)]]
        /\ cacheMap' = [cacheMap EXCEPT ![loader] =
                           IF options.cache THEN @ \cup {key} ELSE @]
        /\ requested' = [requested EXCEPT ![loader] = @ \cup {key}]
        /\ UNCHANGED <<tables, servervars, readvars, mutationvars, dbvars, tick, inflight, fetches, wave, delivered>>

\* the resolver code of the current wave returns to the event loop
EndWave ==
    /\ tick = "sync"
    /\ tick' = "idle"
    /\ UNCHANGED <<tables, servervars, readvars, mutationvars, dbvars, batches, cacheMap, inflight, fetches, wave,
                   requested, delivered, nloads>>

\* the scheduled dispatch of a batch: one call of the batch function,
\* unless the batch holds cache hits only
DispatchBatch(loader) ==
    /\ tick = "idle"
    /\ batches[loader] # <<>>
    /\ batches' = [batches EXCEPT ![loader] = Tail(@)]
    /\ IF Head(batches[loader]) = <<>>
       THEN UNCHANGED <<fetches, inflight>>
       ELSE /\ fetches' = [fetches EXCEPT ![loader] =
                   Append(@, [keys |-> Head(batches[loader]), wave |-> wave])]
            /\ inflight' = [inflight EXCEPT ![loader] =
                   @ \cup {Len(fetches[loader]) + 1}]
    /\ UNCHANGED <<tables, servervars, readvars, mutationvars, dbvars, tick, cacheMap, wave, requested, delivered,
                   nloads>>

\* the rows of a dispatched batch arrive: every key's promise is resolved
\* with the value at its index, and the awaiting resolvers run on
BatchReturn(loader, n) ==
    /\ tick = "idle"
    /\ AllDispatched
    /\ n \in inflight[loader]
    /\ LET keys == fetches[loader][n].keys
           values == BatchFunction(loader, keys)
       IN  delivered' = delivered \cup
               { [loader |-> loader, key |-> keys[k], value |-> values[k]] :
                 k \in DOMAIN keys }
    /\ inflight' = [inflight EXCEPT ![loader] = @ \ {n}]
    /\ tick' = "sync"
    /\ wave' = wave + 1
    /\ requested' = [l \in Loaders |-> {}]
    /\ UNCHANGED <<tables, servervars, readvars, mutationvars, dbvars, batches, cacheMap, fetches, nloads>>

\* another I/O callback (a Database call of a resolver returns) starts the
\* next wave of resolver code
StartWave ==
    /\ tick = "idle"
    /\ AllDispatched
    /\ nloads < MaxLoads
    /\ \E l \in Loaders : requested[l] # {}
    /\ tick' = "sync"
    /\ wave' = wave + 1
    /\ requested' = [l \in Loaders |-> {}]
    /\ UNCHANGED <<tables, servervars, readvars, mutationvars, dbvars, batches, cacheMap, inflight, fetches,
                   delivered, nloads>>

\* variant: the context function hands every request the same DataSource
SharedDataSource(caches) == caches

\* new DataSource(db): two new DataLoader instances, their caches empty
NewDataSource(caches) == [l \in Loaders |-> {}]

\* the keys the batch function of a loader has been called with
FetchedKeys(loader) ==
    UNION { Elements(fetches[loader][n].keys) : n \in DOMAIN fetches[loader] }

\* index.ts, the context function: the operation of the request before has
\* been answered, and the next request gets its DataSource
NewRequest ==
    /\ tick = "idle"
    /\ AllDispatched
    /\ \A l \in Loaders : inflight[l] = {}
    /\ \E l \in Loaders : fetches[l] # <<>>
    /\ served' = served \cup
          UNION { { [loader |-> l, key |-> key] : key \in FetchedKeys(l) } :
                  l \in Loaders }
    /\ cacheMap' = NewDataSource(cacheMap)
    /\ batches' = [l \in Loaders |-> <<>>]
    /\ fetches' = [l \in Loaders |-> <<>>]
    /\ requested' = [l \in Loaders |-> {}]
    /\ delivered' = {}
    /\ tick' = "sync"
    /\ wave' = 1
    /\ UNCHANGED <<tables, dbvars, readvars, mutationvars, inflight, nloads>>

LoaderNext ==
    \/ \E l \in Loaders, key \in LoaderKeys : Load(l, key)
    \/ EndWave
    \/ \E l \in Loaders : DispatchBatch(l)
    \/ \E l \in Loaders : \E n \in inflight[l] : BatchReturn(l, n)
    \/ StartWave

LoaderInit ==
    /\ tick = "sync"
    /\ batches = [l \in Loaders |-> <<>>]
    /\ cacheMap = [l \in Loaders |-> {}]
    /\ inflight = [l \in Loaders |-> {}]
    /\ fetches = [l \in Loaders |-> <<>>]
    /\ wave = 1
    /\ requested = [l \in Loaders |-> {}]
    /\ delivered = {}
    /\ nloads = 0

\* the clients whose lineup mutations run concurrently
Clients == { "a", "b" }

\* the lineupId argument of the lineup mutation: not given, or an Int
LineupIdArguments == { Absent, [value |-> 0], [value |-> 1] }

\* the position arguments of the lineup mutation
MutationAssignments ==
    { EmptyAssignments,
      [p \in {"pitcher", "catcher"} |->
          IF p = "pitcher" THEN <<"B">> ELSE <<"1">>] }

MutationArguments ==
    [lineupId : LineupIdArguments, assignments : MutationAssignments]

\* a client that has no mutation in progress
NoMutation ==
    [pc |-> "idle", args |-> [lineupId |-> Absent,
                              assignments |-> EmptyAssignments],
     lineupId |-> 0, pending |-> {}, created |-> {}, written |-> {},
     before |-> {}, result |-> getLineup({}, {}, 0), error |-> "none"]

\* no read operation has been called yet
NoRead == [op |-> "none", args |-> <<>>, outcome |-> [value |-> <<>>]]

Init ==
    /\ People \in PeopleTables
    /\ Batting = BattingFixture
    /\ LoaderInit
    /\ read = NoRead
    /\ mutations = [c \in Clients |-> NoMutation]
    /\ returned = <<>>
    /\ served = {}
    /\ Lineups = {}
    /\ seq = 0
    /\ LineupAssignments = {}
    /\ call = NoCall

\* variant: the read does not wait for the writes
WritesSettledNoWait(pending) == TRUE

\* await Promise.all(...): every db.run of the call has completed
WritesSettled(pending) == pending = {}

\* Database.getLineup as an operation of its own
CallGetLineup(lineupId) ==
    /\ call.phase = "idle"
    /\ call' = [op |-> "getLineup", phase |-> "done", lineupId |-> lineupId,
                assignments |-> EmptyAssignments, pending |-> {},
                pre |-> LineupAssignments, preLineups |-> Lineups,
                result |-> getLineup(Lineups, LineupAssignments, lineupId)]
    /\ UNCHANGED <<tables, servervars, readvars, mutationvars, loadervars, Lineups, seq, LineupAssignments>>

\* Database.createLineup: INSERT INTO Lineups VALUES(null), then getLineup
CallCreateLineup ==
    /\ call.phase = "idle"
    /\ seq < MaxLineupId
    /\ seq' = seq + 1
    /\ Lineups' = Lineups \cup {seq + 1}
    /\ call' = [op |-> "createLineup", phase |-> "done", lineupId |-> seq + 1,
                assignments |-> EmptyAssignments, pending |-> {},
                pre |-> LineupAssignments, preLineups |-> Lineups,
                result |-> getLineup(Lineups', LineupAssignments, seq + 1)]
    /\ UNCHANGED <<tables, servervars, readvars, mutationvars, loadervars, LineupAssignments>>

\* Database.updateLineup, up to the dispatch of the writes
UpdateLineupStart(lineupId, assignments) ==
    /\ call.phase = "idle"
    /\ call' = [op |-> "updateLineup", phase |-> "writing",
                lineupId |-> lineupId, assignments |-> assignments,
                pending |-> DataRows(lineupId, assignments),
                pre |-> LineupAssignments, preLineups |-> Lineups,
                result |-> NoCall.result]
    /\ UNCHANGED <<tables, servervars, readvars, mutationvars, loadervars, Lineups, seq, LineupAssignments>>

\* one of the concurrently dispatched db.run calls completes; the order
\* among the writes of one Promise.all is not fixed
UpdateLineupWrite(row) ==
    /\ call.phase = "writing"
    /\ row \in call.pending
    /\ LineupAssignments' = RunWrite(People, LineupAssignments, row)
    /\ call' = [call EXCEPT !.pending = @ \ {row}]
    /\ UNCHANGED <<tables, servervars, readvars, mutationvars, loadervars, Lineups, seq>>

\* all writes are done: return this.getLineup(lineupId)
UpdateLineupRead ==
    /\ call.phase = "writing"
    /\ WritesSettled(call.pending)
    /\ call' = [call EXCEPT !.phase = "done",
                  !.result = getLineup(Lineups, LineupAssignments, call.lineupId)]
    /\ UNCHANGED <<tables, servervars, readvars, mutationvars, loadervars, Lineups, seq, LineupAssignments>>

\* the caller has received the result: the next operation can be called
Settle ==
    /\ call.phase = "done"
    /\ call' = NoCall
    /\ UNCHANGED <<tables, servervars, readvars, mutationvars, loadervars, Lineups, seq, LineupAssignments>>

Next ==
    \/ \E id \in LineupIds : CallGetLineup(id)
    \/ CallCreateLineup
    \/ \E id \in LineupIds, a \in AssignmentMaps : UpdateLineupStart(id, a)
    \/ \E row \in call.pending : UpdateLineupWrite(row)
    \/ UpdateLineupRead
    \/ Settle

Spec == Init /\ [][Next]_vars

\* one operation served by one DataSource
LoaderSpec == Init /\ [][LoaderNext]_vars

\* the server: request after request, each with a DataSource of its own
ServerNext == LoaderNext \/ NewRequest

ServerSpec == Init /\ [][ServerNext]_vars

(***************************************************************************)
(* resolvers.ts: Mutation.lineup, called by several clients at once.  Each *)
(* await of the resolver and of the Database methods it calls is a step,   *)
(* and the steps of different clients interleave.                          *)
(***************************************************************************)
\* variant: if(!lineupId), which takes the identifier 0 for a missing one
CreatesLineupFalsy(args) ==
    IsAbsent(args.lineupId) \/ args.lineupId.value = 0

\* if(lineupId == null)
CreatesLineup(args) == IsAbsent(args.lineupId)

\* variant: a statement that inserts the identifier 1 whatever the table holds
InsertedLineupIdFixed(counter) == 1

\* INSERT INTO Lineups VALUES(null) on an INTEGER PRIMARY KEY AUTOINCREMENT
\* column: one more than the largest identifier the table has ever held
InsertedLineupId(counter) == counter + 1

\* the store of the lineup mutations
MutationInit ==
    /\ People = << Andy(<<"1">>), Bob, Bill >>
    /\ Batting = BattingFixture
    /\ LoaderInit
    /\ read = NoRead
    /\ mutations = [c \in Clients |-> NoMutation]
    /\ returned = <<>>
    /\ served = {}
    /\ Lineups = {}
    /\ seq = 0
    /\ LineupAssignments = {}
    /\ call = NoCall

\* variant: a null position argument is read as text
SplitThrowsNever(query) == FALSE

\* query.split(" ") on a position argument passed as null: a TypeError
SplitThrows(query) == query = NULL

\* the loop that builds data throws at the first known position whose
\* argument is null, before any db.run is issued
Throws(assignments) ==
    \E p \in KnownPositionSet \cap DOMAIN assignments :
        SplitThrows(assignments[p])

\* Mutation.lineup is called: without lineupId it calls createLineup, whose
\* INSERT is then in flight; with one it calls updateLineup, which builds
\* its rows and dispatches the writes
MutationLineup(c, args) ==
    /\ mutations[c].pc = "idle"
    /\ mutations' = [mutations EXCEPT ![c] =
          IF CreatesLineup(args)
          THEN [NoMutation EXCEPT !.pc = "inserting", !.args = args,
                                  !.before = Elements(returned)]
          ELSE IF Throws(args.assignments)
          THEN [NoMutation EXCEPT !.pc = "failed", !.args = args,
                                  !.lineupId = args.lineupId.value,
                                  !.error = "TypeError"]
          ELSE [NoMutation EXCEPT !.pc = "writing", !.args = args,
                                  !.lineupId = args.lineupId.value,
                                  !.pending = DataRows(args.lineupId.value,
                                                       args.assignments)]]
    /\ UNCHANGED <<tables, servervars, dbvars, loadervars, readvars, returned>>

\* createLineup: the INSERT runs, lastID is the identifier it stored
MutationInsert(c) ==
    /\ mutations[c].pc = "inserting"
    /\ seq < MaxCreated
    /\ seq' = InsertedLineupId(seq)
    /\ Lineups' = Lineups \cup {seq'}
    /\ mutations' = [mutations EXCEPT ![c].pc = "reading",
                                      ![c].lineupId = seq',
                                      ![c].created = @ \cup {seq'}]
    /\ UNCHANGED <<tables, servervars, loadervars, readvars, returned,
                   LineupAssignments, call>>

\* createLineup returns the lineup read for lastID; the resolver takes the
\* identifier from it and calls updateLineup, which builds its rows and
\* dispatches the writes
MutationCreated(c) ==
    LET result == getLineup(Lineups, LineupAssignments, mutations[c].lineupId)
    IN  /\ mutations[c].pc = "reading"
        /\ returned' = Append(returned, result.lineupId)
        /\ mutations' = [mutations EXCEPT
              ![c].pc = IF Throws(mutations[c].args.assignments)
                        THEN "failed" ELSE "writing",
              ![c].error = IF Throws(mutations[c].args.assignments)
                           THEN "TypeError" ELSE @,
              ![c].lineupId = result.lineupId,
              ![c].pending = IF Throws(mutations[c].args.assignments)
                             THEN {}
                             ELSE DataRows(result.lineupId,
                                           mutations[c].args.assignments)]
        /\ UNCHANGED <<tables, servervars, dbvars, loadervars, readvars>>

\* variant: the writes of a call are undone when one of them fails
AfterFailureRollback(table, written) ==
    { r \in table : [lineupId |-> r.lineupId, position |-> r.position]
                        \notin written }

\* every db.run is a statement of its own, outside any transaction: the
\* rejection of one of them leaves the table as the others made it
AfterFailure(table, written) == table

\* one of the writes of updateLineup completes; the statements that were
\* dispatched keep running after Promise.all has rejected
MutationWrite(c, row) ==
    /\ mutations[c].pc \in {"writing", "failed"}
    /\ row \in mutations[c].pending
    /\ LineupAssignments' = RunWrite(People, LineupAssignments, row)
    /\ mutations' = [mutations EXCEPT
          ![c].pending = @ \ {row},
          ![c].written = @ \cup { [lineupId |-> row.lineupId,
                                   position |-> row.position] }]
    /\ UNCHANGED <<tables, servervars, loadervars, readvars, returned, Lineups, seq, call>>

\* one of the writes of updateLineup fails: Promise.all rejects with its
\* error, updateLineup and the resolver reject with it, getLineup is not run
MutationWriteFails(c, row) ==
    /\ mutations[c].pc \in {"writing", "failed"}
    /\ row \in mutations[c].pending
    /\ LineupAssignments' = AfterFailure(LineupAssignments,
                                         mutations[c].written)
    /\ mutations' = [mutations EXCEPT
          ![c].pc = "failed",
          ![c].pending = @ \ {row},
          ![c].error = IF mutations[c].pc = "failed" THEN @
                       ELSE "SQLITE_ERROR"]
    /\ UNCHANGED <<tables, servervars, loadervars, readvars, returned, Lineups, seq, call>>

\* all writes are done: updateLineup returns the lineup it reads, and the
\* resolver returns it
MutationRead(c) ==
    /\ mutations[c].pc = "writing"
    /\ WritesSettled(mutations[c].pending)
    /\ mutations' = [mutations EXCEPT
          ![c].pc = "done",
          ![c].result = getLineup(Lineups, LineupAssignments,
                                  mutations[c].lineupId)]
    /\ UNCHANGED <<tables, servervars, dbvars, loadervars, readvars, returned>>

\* the resolver has returned or thrown, and no statement is in flight
Responded(m) ==
    IF m.pc = "failed" THEN m.pending = {} ELSE m.pc = "done"

\* the response has been sent: the client can call again
MutationSettle(c) ==
    /\ Responded(mutations[c])
    /\ mutations' = [mutations EXCEPT ![c] = NoMutation]
    /\ UNCHANGED <<tables, servervars, dbvars, loadervars, readvars, returned>>

MutationNext ==
    \E c \in Clients :
        \/ \E args \in MutationArguments : MutationLineup(c, args)
        \/ MutationInsert(c)
        \/ MutationCreated(c)
        \/ \E row \in mutations[c].pending : MutationWrite(c, row)
        \/ MutationRead(c)
        \/ MutationSettle(c)

MutationSpec == MutationInit /\ [][MutationNext]_vars

\* the mutations of one client over a store whose statements can fail,
\* position arguments passed as null included
FailureClients == {"a"}

FailureAssignments ==
    MutationAssignments \cup
        { [p \in {"pitcher", "catcher"} |->
              IF p = "pitcher" THEN NULL ELSE <<"1">>],
          [p \in {"pitcher", "catcher"} |->
              IF p = "pitcher" THEN <<"B">> ELSE NULL] }

FailureArguments ==
    [lineupId : LineupIdArguments, assignments : FailureAssignments]

FailureNext ==
    \E c \in FailureClients :
        \/ \E args \in FailureArguments : MutationLineup(c, args)
        \/ MutationInsert(c)
        \/ MutationCreated(c)
        \/ \E row \in mutations[c].pending : MutationWrite(c, row)
        \/ \E row \in mutations[c].pending : MutationWriteFails(c, row)
        \/ MutationRead(c)
        \/ MutationSettle(c)

FailureSpec == MutationInit /\ [][FailureNext]_vars

(***************************************************************************)
(* One operation with lineup mutation fields and Player fields: graphql    *)
(* runs the mutation fields one after the other, each with the Player      *)
(* fields of its selection, which load profiles and stats through the      *)
(* loaders of the operation's DataSource.                                  *)
(***************************************************************************)
\* the tables that the writes of the rows leave, run in every order
RECURSIVE AllWritten(_, _, _)
AllWritten(people, table, rows) ==
    IF rows = {} THEN {table}
    ELSE UNION { AllWritten(people, RunWrite(people, table, r), rows \ {r}) :
                 r \in rows }

\* variant: the mutation stores the name it was given in the People row
PeopleAfterMutationRenames(people, rows) ==
    [k \in DOMAIN people |->
        IF rows # {} THEN [people[k] EXCEPT !.nameFirst = <<"X">>]
        ELSE people[k]]

\* createLineup writes Lineups and updateLineup writes LineupAssignments:
\* no statement of a mutation has People as its target
PeopleAfterMutation(people, rows) == people

\* the mutation fields of the operation write the lineup 1
OperationArguments ==
    { args \in MutationArguments : args.lineupId = [value |-> 1] }

\* Mutation.lineup with a lineupId, from the call to the lineup it returns,
\* while no load of the operation is waiting
OperationMutation(args) ==
    LET rows == DataRows(args.lineupId.value, args.assignments)
    IN  /\ AllDispatched
        /\ \A l \in Loaders : inflight[l] = {}
        /\ LineupAssignments' \in AllWritten(People, LineupAssignments, rows)
        /\ People' = PeopleAfterMutation(People, rows)
        /\ LineupAssignments' # LineupAssignments
        /\ tick' = "sync"
        /\ UNCHANGED <<Batting, servervars, readvars, mutationvars, Lineups, seq, call,
                       batches, cacheMap, inflight, fetches, wave, requested,
                       delivered, nloads>>

OperationNext ==
    \/ LoaderNext
    \/ \E args \in OperationArguments : OperationMutation(args)

OperationSpec == MutationInit /\ [][OperationNext]_vars

(***************************************************************************)
(* updateLineup on the query strings at the edges of the token rule (the   *)
(* empty string, three tokens), over People tables with rows whose names   *)
(* are empty or NULL, and with the assignments map as the resolver passes  *)
(* it: the mutation's args, the lineupId key included.                     *)
(***************************************************************************)
ThreeTokens == <<"a", " ", "b", " ", "c">>

EdgeQueries == { <<>>, ThreeTokens }

EdgePeopleTables ==
    { << Andy(<<"1">>), Bob >>,
      << Bob, Andy(ThreeTokens) >>,
      << Andy(<<"1">>), Named(<<"9">>, <<>>, <<>>) >>,
      << Named(<<"7">>, NULL, NULL) >>,
      << Named(NULL, <<"Z">>, <<"Z">>), Bob >>,
      << >> }

\* args of Mutation.lineup: position arguments, with or without lineupId,
\* whose value updateLineup never reads
EdgeAssignmentMaps ==
    UNION { { a, [k \in DOMAIN a \cup {"lineupId"} |->
                    IF k = "lineupId" THEN <<"1">> ELSE a[k]] } :
            a \in UNION { [K -> EdgeQueries] : K \in SUBSET InputPositions } }

EdgeInit ==
    /\ People \in EdgePeopleTables
    /\ Batting = BattingFixture
    /\ LoaderInit
    /\ read = NoRead
    /\ mutations = [c \in Clients |-> NoMutation]
    /\ returned = <<>>
    /\ served = {}
    /\ Lineups = {}
    /\ seq = 0
    /\ LineupAssignments = {}
    /\ call = NoCall

EdgeNext ==
    \/ CallCreateLineup
    \/ \E id \in LineupIds, a \in EdgeAssignmentMaps : UpdateLineupStart(id, a)
    \/ \E row \in call.pending : UpdateLineupWrite(row)
    \/ UpdateLineupRead
    \/ Settle

EdgeSpec == EdgeInit /\ [][EdgeNext]_vars

(***************************************************************************)
(* The read operations of Database, each called on its own.  They change   *)
(* nothing in the store, so they are taken in a specification of their own *)
(* over the tables of Init.                                                *)
(***************************************************************************)
\* the store the read operations are called on
ReadInit ==
    /\ People \in ReadPeopleTables
    /\ Batting = BattingFixture
    /\ LoaderInit
    /\ read = NoRead
    /\ mutations = [c \in Clients |-> NoMutation]
    /\ returned = <<>>
    /\ served = {}
    /\ Lineups = {}
    /\ seq = 0
    /\ LineupAssignments = {}
    /\ call = NoCall

\* Database.getPlayers
CallGetPlayers(firstName, lastName) ==
    /\ \E result \in getPlayers(People, firstName, lastName) :
          read' = [op |-> "getPlayers", args |-> <<firstName, lastName>>,
                   outcome |-> [value |-> result]]
    /\ UNCHANGED <<tables, servervars, dbvars, loadervars, mutationvars>>

\* Database.getProfiles
CallGetProfiles(idents) ==
    /\ read' = [op |-> "getProfiles", args |-> idents,
                outcome |-> [value |-> getProfiles(People, idents)]]
    /\ UNCHANGED <<tables, servervars, dbvars, loadervars, mutationvars>>

\* Database.getStats
CallGetStats(idents) ==
    /\ read' = [op |-> "getStats", args |-> idents,
                outcome |-> [value |-> getStats(Batting, idents)]]
    /\ UNCHANGED <<tables, servervars, dbvars, loadervars, mutationvars>>

(***************************************************************************)
(* resolvers.ts: the field resolvers.  A Player field asks the DataSource  *)
(* for its parent's identifier; the loader answers a key with the slot the *)
(* key has in the batch it was fetched with (idents, without duplicates).  *)
(***************************************************************************)
\* the batches a loader can form: a key is in a batch at most once
KeyBatches ==
    { idents \in IdentLists :
        \A j, k \in DOMAIN idents : idents[j] = idents[k] => j = k }

\* Query.player: a stub of the identifier given, nothing is looked up
QueryPlayer(playerId) ==
    /\ read' = [op |-> "Query.player", args |-> <<playerId>>,
                outcome |-> [value |-> [playerId |-> playerId]]]
    /\ UNCHANGED <<tables, servervars, dbvars, loadervars, mutationvars>>

\* Query.players: the identifiers of getPlayers, each made a stub
QueryPlayers(firstName, lastName) ==
    /\ \E idents \in getPlayers(People, firstName, lastName) :
          read' = [op |-> "Query.players", args |-> <<firstName, lastName>>,
                   outcome |-> [value |-> [k \in DOMAIN idents |->
                                             [playerId |-> idents[k]]]]]
    /\ UNCHANGED <<tables, servervars, dbvars, loadervars, mutationvars>>

\* Player.profile and Player.stats: if(result == null) throw GraphQLError
PlayerField(loader, idents, k) ==
    LET result == BatchFunction(loader, idents)[k]
    IN  /\ read' = [op |-> IF loader = "profiles" THEN "Player.profile"
                                                 ELSE "Player.stats",
                    args |-> <<idents[k]>>,
                    outcome |-> IF IsAbsent(result)
                                THEN [error |-> "BAD_USER_INPUT"]
                                ELSE [value |-> result]]
        /\ UNCHANGED <<tables, servervars, dbvars, loadervars, mutationvars>>

ReadNext ==
    \/ \E firstName, lastName \in Prefixes :
           CallGetPlayers(firstName, lastName)
    \/ \E firstName, lastName \in Prefixes : QueryPlayers(firstName, lastName)
    \/ \E idents \in IdentLists : CallGetProfiles(idents)
    \/ \E idents \in IdentLists : CallGetStats(idents)
    \/ \E playerId \in Idents : QueryPlayer(playerId)
    \/ \E loader \in Loaders, idents \in KeyBatches :
           \E k \in DOMAIN idents : PlayerField(loader, idents, k)

ReadSpec == ReadInit /\ [][ReadNext]_vars

(***************************************************************************)
(* Vocabulary of the properties.                                           *)
(***************************************************************************)
Done(op) == call.op = op /\ call.phase = "done"

RowsAt(table, lineupId, position) ==
    { r \in table : r.lineupId = lineupId /\ r.position = position }

StoredIds == { People[i].playerID : i \in DOMAIN People }

\* the player the statement of one (position, query) pair resolves to
Resolved(query) == SubqueryPlayer(People, DataRow(0, "pitcher", query))

Keys == DOMAIN call.assignments

(***************************************************************************)
(* C1.  As claimed: a query that matches no stored player leaves the       *)
(* assignment of its position as it was, so that the lineup read after the *)
(* call still shows the previous player there.                             *)
(***************************************************************************)
C1_NonOverwrite ==
    Done("updateLineup") =>
        \A p \in Keys :
            Resolved(call.assignments[p]) = NULL =>
                call.result.slots[p] =
                    getLineup(call.preLineups, call.pre, call.lineupId).slots[p]

(* C1, as the code has it: a query that matches no stored player writes a  *)
(* row with a NULL player for its position, replacing the row the position *)
(* had, so that the lineup read after the call shows the position absent.  *)
C1_ClearsOnNoMatch ==
    Done("updateLineup") =>
        \A p \in Keys :
            Resolved(call.assignments[p]) = NULL =>
                /\ RowsAt(LineupAssignments, call.lineupId, p) =
                       { [lineupId |-> call.lineupId, position |-> p,
                          playerId |-> NULL] }
                /\ call.result.slots[p] = NULL

C1_Witness ==
    /\ Done("updateLineup")
    /\ call.lineupId \in Lineups
    /\ \E p \in Keys :
          /\ Resolved(call.assignments[p]) = NULL
          /\ \E r \in RowsAt(call.pre, call.lineupId, p) : r.playerId # NULL

(***************************************************************************)
(* C2.  No player identifier occupies two positions of one lineup, in any  *)
(* state (also between the writes of a call), and a lineup shape returned  *)
(* by an operation never shows a player at two positions.                  *)
(***************************************************************************)
C2_PlayerUnique ==
    /\ \A r1, r2 \in LineupAssignments :
          (r1.lineupId = r2.lineupId /\ r1.playerId = r2.playerId
             /\ r1.playerId # NULL) => r1 = r2
    /\ \A p1, p2 \in KnownPositionSet :
          (call.result.slots[p1] = call.result.slots[p2]
             /\ call.result.slots[p1] # NULL) => p1 = p2

\* a player held at one position was assigned to another: the first is vacated
C2_Witness ==
    /\ Done("updateLineup")
    /\ \E p1, p2 \in KnownPositionSet :
          /\ p1 # p2
          /\ \E r \in RowsAt(call.pre, call.lineupId, p1) :
                /\ r.playerId # NULL
                /\ [r EXCEPT !.position = p2] \in LineupAssignments
                /\ RowsAt(LineupAssignments, call.lineupId, p1) = {}

(***************************************************************************)
(* C3.  As claimed: createLineup returns a lineup whose nine positions are *)
(* all absent, and reading the returned identifier right afterwards shows  *)
(* all nine positions absent as well.                                      *)
(***************************************************************************)
C3_CreateAllAbsent ==
    Done("createLineup") =>
        \A p \in KnownPositionSet :
            /\ call.result.slots[p] = NULL
            /\ getLineup(Lineups, LineupAssignments,
                         call.result.lineupId).slots[p] = NULL

(***************************************************************************)
(* C4.  As claimed: updateLineup on an identifier without a row in Lineups *)
(* leaves the store as it was: no row in Lineups, none in                  *)
(* LineupAssignments.                                                      *)
(***************************************************************************)
C4_UpdateMissingNoop ==
    (Done("updateLineup") /\ call.lineupId \notin call.preLineups) =>
        /\ Lineups = call.preLineups
        /\ LineupAssignments = call.pre

(***************************************************************************)
(* C5.  As claimed: every position that is not a key of the assignments    *)
(* map holds after the call exactly what it held before.                   *)
(***************************************************************************)
C5_SparseUpdate ==
    Done("updateLineup") =>
        \A p \in KnownPositionSet \ Keys :
            RowsAt(LineupAssignments, call.lineupId, p) =
                RowsAt(call.pre, call.lineupId, p)

\* the players that the keys of the call resolve to
ResolvedPlayers == { Resolved(call.assignments[p]) : p \in Keys } \ {NULL}

(* C5, as the code has it: a position that is not a key of the map holds   *)
(* what it held before, unless it held a player that one of the keys       *)
(* resolves to, in which case its row is gone; the rows of the other       *)
(* lineups are untouched.                                                  *)
C5_SparseExceptVacated ==
    Done("updateLineup") =>
        /\ \A p \in KnownPositionSet \ Keys :
              IF \E r \in RowsAt(call.pre, call.lineupId, p) :
                     r.playerId \in ResolvedPlayers
              THEN RowsAt(LineupAssignments, call.lineupId, p) = {}
              ELSE RowsAt(LineupAssignments, call.lineupId, p) =
                       RowsAt(call.pre, call.lineupId, p)
        /\ { r \in LineupAssignments : r.lineupId # call.lineupId } =
               { r \in call.pre : r.lineupId # call.lineupId }

\* a position outside the map held a player that a key resolves to
C5_Witness ==
    /\ Done("updateLineup")
    /\ Keys # {}
    /\ \E p \in KnownPositionSet \ Keys :
          \E r \in RowsAt(call.pre, call.lineupId, p) :
              /\ r.playerId \in ResolvedPlayers
              /\ RowsAt(LineupAssignments, call.lineupId, p) = {}

(***************************************************************************)
(* C6.  As claimed: a query that equals the identifier of a stored player  *)
(* resolves to that player, also when another stored player matches it by  *)
(* name prefix.                                                            *)
(***************************************************************************)
C6_IdentifierPreferred ==
    Done("updateLineup") =>
        \A p \in Keys :
            (Keys = {p} /\ call.assignments[p] \in StoredIds) =>
                [lineupId |-> call.lineupId, position |-> p,
                 playerId |-> call.assignments[p]] \in LineupAssignments
C6_Witness ==
    /\ Done("updateLineup")
    /\ \E p \in Keys :
          /\ Keys = {p}
          /\ call.assignments[p] \in StoredIds
          /\ \E i \in DOMAIN People :
                /\ People[i].playerID # call.assignments[p]
                /\ RowMatches(People[i], DataRow(0, p, call.assignments[p]))

(***************************************************************************)
(* C9.  Name resolution.  The condition a stored player has to satisfy for *)
(* a query of one or two tokens, with the way a token is compared against  *)
(* the start of a name left open.                                          *)
(***************************************************************************)
\* name starts with token, character for character
StartsWith(name, token) ==
    /\ Len(token) <= Len(name)
    /\ \A k \in 1 .. Len(token) : name[k] = token[k]

\* name starts with token, ASCII letters compared without case
StartsWithNoCase(name, token) ==
    /\ Len(token) <= Len(name)
    /\ \A k \in 1 .. Len(token) : Fold(name[k]) = Fold(token[k])

Satisfies(person, query, starts(_, _)) ==
    LET parts == Split(query)
    IN  \/ person.playerID = query
        \/ Len(parts) = 1 /\ starts(person.nameFirst, query)
        \/ /\ Len(parts) = 2
           /\ starts(person.nameFirst, parts[1])
           /\ starts(person.nameLast, parts[2])

NameResolution(starts(_, _)) ==
    Done("updateLineup") =>
        \A p \in Keys :
            LET query == call.assignments[p]
                rows == RowsAt(LineupAssignments, call.lineupId, p)
            IN  Len(Split(query)) \in {1, 2} =>
                  /\ \A r \in rows :
                        IF r.playerId = NULL
                        THEN \A i \in DOMAIN People :
                                ~Satisfies(People[i], query, starts)
                        ELSE \E i \in DOMAIN People :
                                /\ People[i].playerID = r.playerId
                                /\ Satisfies(People[i], query, starts)
                  /\ Keys = {p} => rows # {}

C10_Idempotent ==
    Done("updateLineup") =>
        \A p \in Keys :
            (Keys = {p} /\ call.assignments[p] \in StoredIds) =>
                LET again == RunWrite(People, LineupAssignments,
                                 DataRow(call.lineupId, p, call.assignments[p]))
                IN  /\ again = LineupAssignments
                    /\ getLineup(Lineups, again, call.lineupId) = call.result

\* the completed call was itself a second application: the store already
\* held its assignment and is as it was before the call
C10_Witness ==
    /\ Done("updateLineup")
    /\ call.lineupId \in Lineups
    /\ \E p \in Keys :
          /\ Keys = {p}
          /\ call.assignments[p] \in StoredIds
          /\ call.pre = LineupAssignments
          /\ \E r \in RowsAt(call.pre, call.lineupId, p) : r.playerId # NULL

(***************************************************************************)
(* Vocabulary of the loader properties.                                    *)
(***************************************************************************)
\* the keys passed to the batch function of a loader in waves before this one
FetchedBefore(loader) ==
    UNION { Elements(fetches[loader][n].keys) :
            n \in { m \in DOMAIN fetches[loader] :
                      fetches[loader][m].wave < wave } }

\* the calls of the batch function of a loader made in the current wave
FetchesNow(loader) ==
    { n \in DOMAIN fetches[loader] : fetches[loader][n].wave = wave }

(***************************************************************************)
(* C7.  At-most-once fetch: within one operation, each key is passed to    *)
(* the batch function of a loader in at most one call, and only once in    *)
(* that call, however many loads are issued and in whatever waves; all     *)
(* loads of a key are answered with one value, an absent one included.     *)
(***************************************************************************)
C7_AtMostOnceFetch ==
    /\ \A l \in Loaders :
          \A n1, n2 \in DOMAIN fetches[l] :
              \A k1 \in DOMAIN fetches[l][n1].keys,
                 k2 \in DOMAIN fetches[l][n2].keys :
                  fetches[l][n1].keys[k1] = fetches[l][n2].keys[k2]
                      => (n1 = n2 /\ k1 = k2)
    /\ \A d1, d2 \in delivered :
          (d1.loader = d2.loader /\ d1.key = d2.key) => d1 = d2

\* a key answered absent in an earlier wave was loaded again in this wave,
\* and the wave went by without a call of the batch function
C7_Witness ==
    /\ tick = "idle"
    /\ AllDispatched
    /\ \E l \in Loaders : \E key \in requested[l] :
          /\ key \in FetchedBefore(l)
          /\ [loader |-> l, key |-> key, value |-> Absent] \in delivered
          /\ FetchesNow(l) = {}

(***************************************************************************)
(* C8.  Coalescing: the batch function of a loader is never called while   *)
(* the loads of the current wave are still being issued; it is called at   *)
(* most once per wave; and once the wave's dispatch is over, it has been   *)
(* called exactly once with the keys the wave loaded that were not fetched *)
(* before, each of them once (and not at all if there is no such key).     *)
(***************************************************************************)
C8_Coalesced ==
    \A l \in Loaders :
        /\ tick = "sync" => FetchesNow(l) = {}
        /\ Cardinality(FetchesNow(l)) <= 1
        /\ (tick = "idle" /\ batches[l] = <<>>) =>
              LET uncached == requested[l] \ FetchedBefore(l)
              IN  IF uncached = {} THEN FetchesNow(l) = {}
                  ELSE \E n \in FetchesNow(l) :
                          /\ Elements(fetches[l][n].keys) = uncached
                          /\ Len(fetches[l][n].keys) = Cardinality(uncached)

\* three loads of one wave on one loader, two keys, one call
C8_Witness ==
    /\ tick = "idle"
    /\ AllDispatched
    /\ wave = 1
    /\ \E l \in Loaders :
          /\ nloads >= 3
          /\ \A other \in Loaders \ {l} : requested[other] = {}
          /\ \E n \in FetchesNow(l) : Len(fetches[l][n].keys) = 2

(***************************************************************************)
(* C11.  As claimed: in an existing lineup, when position p holds a player *)
(* and updateLineup assigns p a query that resolves to player B, then      *)
(* after the call p holds B and only B; and no (lineup, position) pair has *)
(* more than one row in any state.                                         *)
(***************************************************************************)
OnePerPosition ==
    \A r1, r2 \in LineupAssignments :
        (r1.lineupId = r2.lineupId /\ r1.position = r2.position) => r1 = r2

\* position p held a player when the call started
Held(p) ==
    \E r \in RowsAt(call.pre, call.lineupId, p) : r.playerId # NULL

\* position p holds player b, and nothing else, after the call
HoldsOnly(p, b) ==
    /\ RowsAt(LineupAssignments, call.lineupId, p) =
           { [lineupId |-> call.lineupId, position |-> p, playerId |-> b] }
    /\ call.result.slots[p] = b

C11_PositionOverwrite ==
    /\ OnePerPosition
    /\ (Done("updateLineup") /\ call.lineupId \in Lineups) =>
          \A p \in Keys :
              (Held(p) /\ Resolved(call.assignments[p]) # NULL) =>
                  HoldsOnly(p, Resolved(call.assignments[p]))

\* no other position of the call resolves to the player that p resolves to
SoleTarget(p) ==
    \A q \in Keys \ {p} :
        Resolved(call.assignments[q]) # Resolved(call.assignments[p])

(* C11, as the code has it: the position holds B and only B after the     *)
(* call unless another position of the same call resolves to B as well    *)
(* (the write of that position takes B away again if it runs later); and  *)
(* no (lineup, position) pair has more than one row in any state.         *)
C11_OverwriteSoleTarget ==
    /\ OnePerPosition
    /\ (Done("updateLineup") /\ call.lineupId \in Lineups) =>
          \A p \in Keys :
              (/\ Held(p)
               /\ Resolved(call.assignments[p]) # NULL
               /\ SoleTarget(p)) =>
                  HoldsOnly(p, Resolved(call.assignments[p]))

\* a position that held player A now holds another player B
C11_Witness ==
    /\ Done("updateLineup")
    /\ call.lineupId \in Lineups
    /\ \E p \in Keys :
          /\ SoleTarget(p)
          /\ Resolved(call.assignments[p]) # NULL
          /\ \E r \in RowsAt(call.pre, call.lineupId, p) :
                /\ r.playerId # NULL
                /\ r.playerId # Resolved(call.assignments[p])
          /\ HoldsOnly(p, Resolved(call.assignments[p]))

HasPeopleRow(i) == \E k \in DOMAIN People : People[k].playerID = i

HasBattingRow(i) == \E k \in DOMAIN Batting : Batting[k].playerID = i

\* the result of a batch of one identifier
ProfileOf(i) == getProfiles(People, <<i>>)[1]

StatsOf(i) == getStats(Batting, <<i>>)[1]

C13_Alignment ==
    /\ read.op = "getProfiles" =>
          /\ Len(read.outcome.value) = Len(read.args)
          /\ \A k \in DOMAIN read.args :
                /\ read.outcome.value[k] = ProfileOf(read.args[k])
                /\ IsAbsent(read.outcome.value[k]) <=>
                       ~HasPeopleRow(read.args[k])
    /\ read.op = "getStats" =>
          /\ Len(read.outcome.value) = Len(read.args)
          /\ \A k \in DOMAIN read.args :
                /\ read.outcome.value[k] = StatsOf(read.args[k])
                /\ IsAbsent(read.outcome.value[k]) <=>
                       ~HasBattingRow(read.args[k])

(***************************************************************************)
(* C14.  As claimed: Player.profile fails with BAD_USER_INPUT exactly when *)
(* the parent identifier has no People row, Player.stats fails with        *)
(* BAD_USER_INPUT exactly when it has no Batting row, a field that does    *)
(* not fail returns the profile or the statistics of that player (never    *)
(* null), and Query.player never fails.                                    *)
(***************************************************************************)
Failed(outcome) == "error" \in DOMAIN outcome

C14_FieldErrors ==
    /\ read.op = "Player.profile" =>
          IF HasPeopleRow(read.args[1])
          THEN ~Failed(read.outcome) /\ ~IsAbsent(read.outcome.value)
          ELSE Failed(read.outcome) /\ read.outcome.error = "BAD_USER_INPUT"
    /\ read.op = "Player.stats" =>
          IF HasBattingRow(read.args[1])
          THEN ~Failed(read.outcome) /\ ~IsAbsent(read.outcome.value)
          ELSE Failed(read.outcome) /\ read.outcome.error = "BAD_USER_INPUT"
    /\ read.op = "Query.player" => ~Failed(read.outcome)

(***************************************************************************)
(* C15.  getPlayers(firstName, lastName) returns, each once, exactly the   *)
(* identifiers of the stored players whose first name starts with          *)
(* firstName and whose last name starts with lastName, with the way a      *)
(* prefix is compared left open; it never fails.                           *)
(***************************************************************************)
PrefixMatch(starts(_, _)) ==
    read.op = "getPlayers" =>
        LET result == read.outcome.value
            expected == { People[i].playerID : i \in
                            { j \in DOMAIN People :
                                /\ starts(People[j].nameFirst, read.args[1])
                                /\ starts(People[j].nameLast, read.args[2]) } }
        IN  /\ ~Failed(read.outcome)
            /\ Elements(result) = expected
            /\ Len(result) = Cardinality(expected)

StartsWithLike(name, token) ==
    /\ Len(token) <= Len(name)
    /\ \A k \in 1 .. Len(token) :
          token[k] = "_" \/ Fold(name[k]) = Fold(token[k])

RowOf(ident) == People[CHOOSE i \in DOMAIN People : People[i].playerID = ident]

\* the rowid of an identifier
RowId(ident) == CHOOSE i \in DOMAIN People : People[i].playerID = ident

Ascending(idents) ==
    \A j, k \in DOMAIN idents :
        j < k => ~NameLess(RowOf(idents[k]), RowOf(idents[j]))

C16_Ordered ==
    /\ read.op = "getPlayers" => Ascending(read.outcome.value)
    /\ read.op = "Query.players" =>
          Ascending([k \in DOMAIN read.outcome.value |->
                        read.outcome.value[k].playerId])

\* two players are returned in the reverse of their storage order
C16_Witness ==
    /\ read.op = "getPlayers"
    /\ \E j, k \in DOMAIN read.outcome.value :
          /\ j < k
          /\ RowId(read.outcome.value[j]) > RowId(read.outcome.value[k])
          /\ NameLess(RowOf(read.outcome.value[j]), RowOf(read.outcome.value[k]))

(***************************************************************************)
(* C17.  As claimed: every createLineup call returns an identifier that is *)
(* strictly greater than every identifier returned by a call that          *)
(* completed earlier, so the identifiers come back in increasing order.    *)
(***************************************************************************)
C17_ReturnedIncreasing ==
    \A j, k \in DOMAIN returned : j < k => returned[j] < returned[k]

(* C17, as the code has it: no two createLineup calls return the same      *)
(* identifier, and the identifier a call creates is an integer strictly    *)
(* greater than every identifier returned by a call that had completed     *)
(* when this call was made.  Of two calls in progress at the same time the *)
(* one that inserted later (the greater identifier) can return first.      *)
C17_FreshIdentifiers ==
    /\ \A j, k \in DOMAIN returned : returned[j] = returned[k] => j = k
    /\ \A c \in Clients :
          \A i \in mutations[c].created :
              /\ i \in Nat
              /\ \A b \in mutations[c].before : i > b
              /\ \A d \in Clients \ {c} : i \notin mutations[d].created

\* a call made after another call had returned has created its own lineup
C17_Witness ==
    \E c \in Clients :
        /\ mutations[c].created # {}
        /\ mutations[c].before # {}
        /\ mutations[c].pc = "done"

(***************************************************************************)
(* C18.  When a lineup mutation returns: if it was called without lineupId *)
(* it has created exactly one lineup, which did not exist before, and its  *)
(* writes went to that identifier; if it was called with a lineupId (0     *)
(* included) it has created none and its writes went to the identifier     *)
(* given.  In both cases it has written one row for every position         *)
(* argument supplied and no other, and it returns the lineup as stored at  *)
(* that moment, under the identifier written to.                           *)
(***************************************************************************)
\* the lineup as the store holds it
StoredShape(lineupId) ==
    [p \in KnownPositionSet |->
        IF /\ lineupId \in Lineups
           /\ \E r \in RowsAt(LineupAssignments, lineupId, p) :
                 r.playerId # NULL
        THEN (CHOOSE r \in RowsAt(LineupAssignments, lineupId, p) : TRUE).playerId
        ELSE NULL]

Returned(c) ==
    LET m == mutations[c]
    IN  /\ IF IsAbsent(m.args.lineupId)
           THEN /\ Cardinality(m.created) = 1
                /\ m.created = {m.lineupId}
                /\ m.lineupId \in Lineups
           ELSE /\ m.created = {}
                /\ m.lineupId = m.args.lineupId.value
        /\ m.written = { [lineupId |-> m.lineupId, position |-> p] :
                           p \in DOMAIN m.args.assignments }
        /\ m.result.lineupId = m.lineupId
        /\ m.result.slots = StoredShape(m.lineupId)

C18_MutationProtocol ==
    [][ /\ \A c \in Clients :
              (mutations[c].pc # "done" /\ mutations'[c].pc = "done") =>
                  Returned(c)'
        /\ \A c \in Clients :
              \A i \in mutations'[c].created \ mutations[c].created :
                  i \notin Lineups ]_vars

\* a mutation without lineupId has returned the lineup it created with the
\* two positions supplied, while the other client was in its own mutation
C18_Witness ==
    \E c \in Clients :
        /\ mutations[c].pc = "done"
        /\ IsAbsent(mutations[c].args.lineupId)
        /\ mutations[c].created = {mutations[c].lineupId}
        /\ Cardinality(mutations[c].written) = 2
        /\ \A p \in DOMAIN mutations[c].args.assignments :
              mutations[c].result.slots[p] # NULL
        /\ \E d \in Clients \ {c} : mutations[d].pc # "idle"

(***************************************************************************)
(* C19.  For every identifier with at least one Batting row, getStats      *)
(* returns atBats, hits, homeRuns and strikeouts equal to the totals of    *)
(* AB, H, HR and SO over all the Batting rows of that player, batting      *)
(* average as hits over at-bats, and slugging as                           *)
(* (H - 2B - 3B - HR) + 2*2B + 3*3B + 4*HR of the totals over at-bats.     *)
(***************************************************************************)
RECURSIVE TotalOver(_, _)
TotalOver(rowids, col) ==
    IF rowids = {} THEN 0
    ELSE LET k == CHOOSE k \in rowids : TRUE
         IN  Batting[k][col] + TotalOver(rowids \ {k}, col)

\* the total of a column over the Batting rows of one player
Total(ident, col) ==
    TotalOver({ k \in DOMAIN Batting : Batting[k].playerID = ident }, col)

C19_StatsAggregation ==
    read.op = "getStats" =>
        \A k \in DOMAIN read.args :
            HasBattingRow(read.args[k]) =>
                LET i == read.args[k]
                    stats == read.outcome.value[k]
                IN  /\ stats.atBats = Total(i, "AB")
                    /\ stats.hits = Total(i, "H")
                    /\ stats.homeRuns = Total(i, "HR")
                    /\ stats.strikeouts = Total(i, "SO")
                    /\ stats.battingAverage = <<Total(i, "H"), Total(i, "AB")>>
                    /\ stats.slugging =
                         << (Total(i, "H") - Total(i, "_2B") - Total(i, "_3B")
                               - Total(i, "HR"))
                            + 2 * Total(i, "_2B") + 3 * Total(i, "_3B")
                            + 4 * Total(i, "HR"),
                            Total(i, "AB") >>

\* the statistics of a player with two Batting rows were returned
C19_Witness ==
    /\ read.op = "getStats"
    /\ \E k \in DOMAIN read.args :
          /\ Cardinality({ j \in DOMAIN Batting :
                             Batting[j].playerID = read.args[k] }) = 2
          /\ read.outcome.value[k].atBats =
                 Batting[1].AB + Batting[2].AB

(***************************************************************************)
(* C20.  No cache across operations: a value delivered to a load of the    *)
(* current operation was fetched by a call of the batch function made in   *)
(* this operation, and once the dispatch of a wave is over every key       *)
(* loaded in the wave has been passed to the batch function in this        *)
(* operation, whether or not an earlier operation has fetched it.          *)
(***************************************************************************)
C20_NoCrossOperationCache ==
    /\ \A d \in delivered : d.key \in FetchedKeys(d.loader)
    /\ (tick = "idle" /\ AllDispatched) =>
          \A l \in Loaders : requested[l] \subseteq FetchedKeys(l)

\* a key fetched for an earlier request has been loaded and fetched anew
C20_Witness ==
    /\ tick = "idle"
    /\ AllDispatched
    /\ \E s \in served :
          /\ s.key \in requested[s.loader]
          /\ s.key \in FetchedKeys(s.loader)

(***************************************************************************)
(* C21.  As claimed: the lineup persisted by one updateLineup call is the  *)
(* same for every order in which the writes of the call are executed, so   *)
(* whatever the order was, the table is the one that the writes leave when *)
(* they run in the order of the known positions.                           *)
(***************************************************************************)
RECURSIVE WrittenInOrder(_, _, _, _)
WrittenInOrder(table, lineupId, assignments, positions) ==
    IF positions = <<>> THEN table
    ELSE LET p == Head(positions)
             next == IF p \in DOMAIN assignments
                     THEN RunWrite(People, table,
                                   DataRow(lineupId, p, assignments[p]))
                     ELSE table
         IN  WrittenInOrder(next, lineupId, assignments, Tail(positions))

C21_OrderIndependent ==
    Done("updateLineup") =>
        LineupAssignments =
            WrittenInOrder(call.pre, call.lineupId, call.assignments,
                           KNOWN_POSITIONS)

(***************************************************************************)
(* C22.  When updateLineup returns, every write of the call has been       *)
(* applied: the table is one that the writes of the call leave when all of *)
(* them have run, in some order, on the table the call started with, and   *)
(* the lineup returned is the lineup that table holds.                     *)
(***************************************************************************)
\* the tables left by running all of the rows' writes, in every order
RECURSIVE FinalTables(_, _)
FinalTables(table, rows) ==
    IF rows = {} THEN {table}
    ELSE UNION { FinalTables(RunWrite(People, table, r), rows \ {r}) :
                 r \in rows }

C22_FanInBeforeRead ==
    Done("updateLineup") =>
        /\ call.pending = {}
        /\ LineupAssignments \in
               FinalTables(call.pre, DataRows(call.lineupId, call.assignments))
        /\ call.result.slots = StoredShape(call.lineupId)

\* a call with two writes has returned a lineup that shows both of them
C22_Witness ==
    /\ Done("updateLineup")
    /\ Cardinality(Keys) = 2
    /\ \A p \in Keys :
          /\ call.result.slots[p] # NULL
          /\ RowsAt(call.pre, call.lineupId, p) = {}


(***************************************************************************)
(* C23.  When one of the per-position writes of an updateLineup call       *)
(* fails, the call fails with that error and returns no lineup, then or    *)
(* later; the rows its other writes have stored are not rolled back: a row *)
(* leaves LineupAssignments only when a write of the same step stores a    *)
(* row that replaces it (same lineup and same position or same player),    *)
(* and the writes still in flight go on being stored.                      *)
(***************************************************************************)
Replaces(w, r) ==
    /\ w.lineupId = r.lineupId
    /\ \/ w.position = r.position
       \/ w.playerId = r.playerId /\ r.playerId # NULL

C23_PartialFailure ==
    [][ /\ \A c \in Clients :
              /\ (mutations[c].pc = "writing" /\ mutations'[c].pc = "failed")
                    => /\ mutations'[c].error = "SQLITE_ERROR"
                       /\ LineupAssignments' = LineupAssignments
              /\ mutations'[c].pc = "failed"
                    => mutations'[c].result = NoMutation.result
              /\ mutations[c].pc = "failed"
                    => mutations'[c].pc \in {"failed", "idle"}
        /\ \A r \in LineupAssignments \ LineupAssignments' :
              \E w \in LineupAssignments' \ LineupAssignments : Replaces(w, r)
      ]_vars

\* a call with two positions has failed on one write while its other write
\* is stored: the row is in the table after the failure
C23_Witness ==
    \E c \in Clients :
        /\ mutations[c].pc = "failed"
        /\ mutations[c].pending = {}
        /\ Cardinality(DOMAIN mutations[c].args.assignments) = 2
        /\ Cardinality(mutations[c].written) = 1
        /\ \A w \in mutations[c].written :
              \E r \in RowsAt(LineupAssignments, w.lineupId, w.position) :
                  r.playerId # NULL


(***************************************************************************)
(* C24.  In every reachable state of an operation, after a lineup         *)
(* mutation of the operation included, every value that a loader of the    *)
(* operation has delivered is held in its cache under its key and is the   *)
(* value that getProfiles or getStats returns for that key from People     *)
(* and Batting as they are in that state.                                  *)
(***************************************************************************)
Fresh(loader, key) == BatchFunction(loader, <<key>>)[1]

C24_CacheCoherent ==
    \A d \in delivered :
        /\ d.key \in cacheMap[d.loader]
        /\ d.value = Fresh(d.loader, d.key)

\* a value is held in a cache while the lineup tables have been written
C24_Witness ==
    /\ delivered # {}
    /\ LineupAssignments # {}
    /\ \E d \in delivered : d.loader = "profiles" /\ ~IsAbsent(d.value)


(***************************************************************************)
(* C25.  Whatever batch a key is fetched in, the value at the key's index  *)
(* in the result of the batch call is the first value of a direct call of  *)
(* the gateway with that key alone, and it is the value delivered to the   *)
(* callers of load for that key: no caller gets the value of another key   *)
(* of the batch.                                                           *)
(***************************************************************************)
C25_BatchedEqualsUnbatched ==
    \A l \in Loaders :
        \A n \in DOMAIN fetches[l] :
            LET keys == fetches[l][n].keys
                batch == BatchFunction(l, keys)
                direct(k) == IF l = "profiles"
                             THEN getProfiles(People, <<keys[k]>>)[1]
                             ELSE getStats(Batting, <<keys[k]>>)[1]
            IN  \A k \in DOMAIN keys :
                    /\ batch[k] = direct(k)
                    /\ n \notin inflight[l] =>
                          \A d \in delivered :
                              (d.loader = l /\ d.key = keys[k])
                                  => d.value = batch[k]

\* a batch of two keys has been delivered, one key with a value and the
\* other one absent
C25_Witness ==
    \E l \in Loaders :
        \E n \in DOMAIN fetches[l] :
            /\ n \notin inflight[l]
            /\ Len(fetches[l][n].keys) = 2
            /\ \E d1, d2 \in delivered :
                  /\ d1.loader = l /\ d2.loader = l
                  /\ d1.key = fetches[l][n].keys[1]
                  /\ d2.key = fetches[l][n].keys[2]
                  /\ IsAbsent(d1.value) /\ ~IsAbsent(d2.value)


(***************************************************************************)
(* C26.  As claimed: when updateLineup has returned, every position whose  *)
(* query string has more than two space-separated tokens resolved to the   *)
(* player whose identifier is the whole string if People stores such a     *)
(* player and to no player otherwise, and the lineup returned shows at     *)
(* that position that player or nothing.                                   *)
(***************************************************************************)
C26_NoNameCandidate ==
    Done("updateLineup") =>
        \A p \in Keys \cap KnownPositionSet :
            LET query == call.assignments[p]
            IN  Len(Split(query)) > 2 =>
                    /\ Resolved(query) =
                          IF query \in StoredIds THEN query ELSE NULL
                    /\ call.result.slots[p] \in {NULL, Resolved(query)}


(***************************************************************************)
(* C27.  When an updateLineup call on an existing lineup that supplied two *)
(* positions whose queries resolve to the same player has returned,        *)
(* exactly one of the two positions holds that player, in the store and in *)
(* the lineup returned, and the other one holds no row and reads absent,   *)
(* whatever it held before the call.                                       *)
(***************************************************************************)
SamePlayer(p1, p2, b) ==
    /\ p1 # p2
    /\ b # NULL
    /\ Resolved(call.assignments[p1]) = b
    /\ Resolved(call.assignments[p2]) = b

ReadsAbsent(p) ==
    /\ RowsAt(LineupAssignments, call.lineupId, p) = {}
    /\ call.result.slots[p] = NULL

C27_SamePlayerOneWins ==
    (Done("updateLineup") /\ call.lineupId \in call.preLineups) =>
        \A p1, p2 \in Keys : \A b \in StoredIds :
            SamePlayer(p1, p2, b) =>
                \/ HoldsOnly(p1, b) /\ ReadsAbsent(p2)
                \/ HoldsOnly(p2, b) /\ ReadsAbsent(p1)

\* the catcher held another player before the call and reads absent after
\* it: the write of the pitcher ran last
C27_Witness ==
    /\ Done("updateLineup")
    /\ call.lineupId \in call.preLineups
    /\ Keys = {"pitcher", "catcher"}
    /\ \E b \in StoredIds :
          /\ SamePlayer("pitcher", "catcher", b)
          /\ HoldsOnly("pitcher", b)
          /\ ReadsAbsent("catcher")
          /\ \E r \in RowsAt(call.pre, call.lineupId, "catcher") :
                r.playerId \notin {NULL, b}


(***************************************************************************)
(* C28.  In every reachable state every row of LineupAssignments is at one *)
(* of the nine known positions, so no key of the assignments map outside   *)
(* them (lineupId) has been written, and holds NULL or the playerID of a   *)
(* row of People; and the lineup an operation returns reports the nine     *)
(* known positions and no other, each absent or with the playerID of a row *)
(* of People.                                                              *)
(***************************************************************************)
PlayerIds == StoredIds \ {NULL}

C28_KnownPositionsAndPlayers ==
    /\ \A r \in LineupAssignments :
          /\ r.position \in KnownPositionSet
          /\ r.playerId \in PlayerIds \cup {NULL}
    /\ call.phase = "done" =>
          /\ DOMAIN call.result.slots = KnownPositionSet
          /\ \A p \in KnownPositionSet :
                call.result.slots[p] \in PlayerIds \cup {NULL}

\* updateLineup was given a map with the key lineupId and has returned a
\* lineup with a player
C28_Witness ==
    /\ Done("updateLineup")
    /\ "lineupId" \in Keys
    /\ \E p \in Keys \cap KnownPositionSet : call.result.slots[p] \in PlayerIds


(***************************************************************************)
(* C29.  As claimed: when updateLineup has returned and People holds at    *)
(* least one player, every position that was given the empty query string  *)
(* resolved to a stored player, and is not left unassigned.                *)
(***************************************************************************)
C29_EmptyQueryAssigns ==
    (Done("updateLineup") /\ People # <<>>) =>
        \A p \in Keys \cap KnownPositionSet :
            call.assignments[p] = <<>> => Resolved(<<>>) \in PlayerIds

(* C29, as the code has it: the empty query string is a one-token query    *)
(* with the patterns '%' and '%', which match every row of People whose    *)
(* first and last names are both not NULL.  When updateLineup has          *)
(* returned, a position given the empty string resolved to the playerID of *)
(* the first row in storage order that has both names or whose playerID is *)
(* the empty string, and to no player if there is no such row or if that   *)
(* row's playerID is NULL; the row stored at the position, if it is still  *)
(* there, holds what the query resolved to.                                *)
HasNames(person) ==
    \/ person.playerID = <<>>
    \/ person.nameFirst # NULL /\ person.nameLast # NULL

FirstWithNames ==
    IF \E k \in DOMAIN People : HasNames(People[k])
    THEN People[CHOOSE k \in DOMAIN People :
                   /\ HasNames(People[k])
                   /\ \A j \in 1 .. k - 1 : ~HasNames(People[j])].playerID
    ELSE NULL

C29_EmptyQueryFirstNamed ==
    Done("updateLineup") =>
        \A p \in Keys \cap KnownPositionSet :
            call.assignments[p] = <<>> =>
                /\ NamePatterns(<<>>) = [firstName |-> <<"%">>,
                                         lastName |-> <<"%">>]
                /\ Resolved(<<>>) = FirstWithNames
                /\ \A r \in RowsAt(LineupAssignments, call.lineupId, p) :
                      r.playerId = FirstWithNames

\* the empty string at one position of an existing lineup has assigned the
\* first player of People
C29_Witness ==
    /\ Done("updateLineup")
    /\ call.lineupId \in call.preLineups
    /\ \E p \in Keys \cap KnownPositionSet :
          /\ call.assignments[p] = <<>>
          /\ People # <<>>
          /\ call.result.slots[p] = People[1].playerID
          /\ call.result.slots[p] # NULL


(***************************************************************************)
(* C30.  A lineup mutation with a position argument passed as null never   *)
(* issues a write and never returns a lineup: none of its assignments is   *)
(* pending or written in any state, those of the other positions supplied  *)
(* included; it fails with the TypeError, and when it was called without   *)
(* lineupId the lineup it created before updateLineup is in the store.     *)
(***************************************************************************)
HasNull(assignments) ==
    \E p \in DOMAIN assignments : assignments[p] = NULL

C30_NullArgumentFailsBeforeWrites ==
    \A c \in Clients :
        LET m == mutations[c]
        IN  HasNull(m.args.assignments) =>
                /\ m.pending = {}
                /\ m.written = {}
                /\ m.pc \in {"inserting", "reading", "failed"}
                /\ m.result = NoMutation.result
                /\ m.pc = "failed" =>
                      /\ m.error = "TypeError"
                      /\ IsAbsent(m.args.lineupId) =>
                            /\ m.created = {m.lineupId}
                            /\ m.lineupId \in Lineups

\* a mutation without lineupId and with a null position has failed: the
\* lineup it created is stored, and the position given a player has no row
C30_Witness ==
    \E c \in Clients :
        /\ mutations[c].pc = "failed"
        /\ IsAbsent(mutations[c].args.lineupId)
        /\ mutations[c].args.assignments["catcher"] = NULL
        /\ mutations[c].args.assignments["pitcher"] # NULL
        /\ mutations[c].lineupId \in Lineups
        /\ LineupAssignments = {}

====
